---- MODULE Spec2Model ----
(***************************************************************************)
(* Model of src/app.py (ProActive Intelligence Hub): the task normalizer,  *)
(* the priority scoring engine, the sort/selection done by the handlers    *)
(* and the JSON envelopes of the HTTP routes.                              *)
(*                                                                         *)
(* Units.  Time is counted in whole hours.  Sub-scores are integers in     *)
(* 0..100.  The weighted sum is kept in hundredths of a point (weights     *)
(* 0.30, 0.20, ... become 30, 20, ...), and the value returned by          *)
(* calculate_priority_score, which has one decimal, is kept in tenths      *)
(* (43.0 is 430).                                                          *)
(*                                                                         *)
(* Text.  Titles and descriptions, on which the code calls lower() and     *)
(* tests substrings, are sequences of one-character strings.  Labels and   *)
(* statuses, which the code only compares for equality, are strings.       *)
(***************************************************************************)
EXTENDS Integers, Sequences, FiniteSets, TLC

VARIABLES
    now,        \* the wall clock read by datetime.now(), in hours
    cards,      \* the cards on the Trello board
    lists,      \* the lists on the Trello board
    response,   \* the last HTTP response: [route, code, body]
    locals,     \* the last handler's local variables cards, lists and tasks
    sort_keys,  \* the keys list.sort computed in the last handler, in result order
    task,       \* scoring engine: the task under evaluation
    result,     \* scoring engine: the latest evaluation of task
    prev        \* scoring engine: the evaluation before the latest one

vars == <<now, cards, lists, response, locals, sort_keys, task, result, prev>>

\* ------------------------------------------------------------------ bounds
MaxClock == 1
MaxCards == 2

\* -------------------------------------------------------------------- text
UpperCase == <<"A","B","C","D","E","F","G","H","I","J","K","L","M",
               "N","O","P","Q","R","S","T","U","V","W","X","Y","Z">>
LowerCase == <<"a","b","c","d","e","f","g","h","i","j","k","l","m",
               "n","o","p","q","r","s","t","u","v","w","x","y","z">>

\* the lower-case letter of every upper-case letter
to_lower ==
    [c \in {UpperCase[i] : i \in DOMAIN UpperCase} |->
        LowerCase[CHOOSE i \in DOMAIN UpperCase : UpperCase[i] = c]]

\* str.lower() on one character
lower_char(c) == IF c \in DOMAIN to_lower THEN to_lower[c] ELSE c

\* str.lower()
lower(s) == [i \in DOMAIN s |-> lower_char(s[i])]

\* the Python operator `sub in s` on two strings
contains(s, sub) ==
    \E i \in 1..(Len(s) - Len(sub) + 1) : SubSeq(s, i, i + Len(sub) - 1) = sub

\* the Python operator `x in xs` on a list
member(x, xs) == \E i \in DOMAIN xs : xs[i] = x

s_blocker    == <<"b","l","o","c","k","e","r">>
s_blocks     == <<"b","l","o","c","k","s">>
s_bug        == <<"b","u","g">>
s_fix        == <<"f","i","x">>
s_error      == <<"e","r","r","o","r">>
s_deploy     == <<"d","e","p","l","o","y">>
s_production == <<"p","r","o","d","u","c","t","i","o","n">>

\* --------------------------------------------------------------- deadlines
\* The `due` value of a card.  kind "none" is None, "empty" is the empty
\* string, "bad" is a string datetime.fromisoformat rejects, "iso" is a
\* timestamp it accepts, `at` hours on the clock.
NoDeadline    == [kind |-> "none",  at |-> 0]
EmptyDeadline == [kind |-> "empty", at |-> 0]
BadDeadline   == [kind |-> "bad",   at |-> 0]
IsoDeadline(t) == [kind |-> "iso", at |-> t]

\* `if deadline:`
truthy(deadline) == deadline.kind \notin {"none", "empty"}

\* datetime.fromisoformat(deadline.replace('Z', '+00:00')) returns
parses(deadline) == deadline.kind = "iso"

\* timedelta.days: whole days, rounded toward minus infinity
days_of(hours) == IF hours >= 0 THEN hours \div 24 ELSE -((23 - hours) \div 24)

\* ---------------------------------------------------------- scoring engine
UrgencySwapped(deadline, clock) ==
    IF truthy(deadline)
    THEN IF parses(deadline)
         THEN LET hours_until == deadline.at - clock
                  days_until  == days_of(hours_until)
              IN  IF hours_until < 0 THEN 100
                  ELSE IF hours_until < 24 THEN 90
                  ELSE IF days_until = 1 THEN 80
                  ELSE IF days_until <= 3 THEN 40
                  ELSE IF days_until <= 7 THEN 60
                  ELSE 20
         ELSE 30
    ELSE 10

Urgency(deadline, clock) ==
    IF truthy(deadline)
    THEN IF parses(deadline)
         THEN LET hours_until == deadline.at - clock
                  days_until  == days_of(hours_until)
              IN  IF hours_until < 0 THEN 100
                  ELSE IF hours_until < 24 THEN 90
                  ELSE IF days_until = 1 THEN 80
                  ELSE IF days_until <= 3 THEN 60
                  ELSE IF days_until <= 7 THEN 40
                  ELSE 20
         ELSE 30
    ELSE 10

StrategicTitleFirst(labels, title) ==
    IF member("critical", labels) \/ member("blocker", labels) \/ member("emergency", labels)
    THEN 90
    ELSE IF contains(title, s_bug) \/ contains(title, s_fix) \/ contains(title, s_error)
    THEN 75
    ELSE IF member("high", labels) \/ member("urgent", labels)
    THEN 70
    ELSE IF member("low", labels) \/ member("nice to have", labels)
    THEN 25
    ELSE 50

\* title is already lower-cased by the caller
Strategic(labels, title) ==
    IF member("critical", labels) \/ member("blocker", labels) \/ member("emergency", labels)
    THEN 90
    ELSE IF member("high", labels) \/ member("urgent", labels)
    THEN 70
    ELSE IF contains(title, s_bug) \/ contains(title, s_fix) \/ contains(title, s_error)
    THEN 75
    ELSE IF member("low", labels) \/ member("nice to have", labels)
    THEN 25
    ELSE 50

\* description is already lower-cased by the caller
DependencyImpact(description, status) ==
    IF contains(description, s_blocker) \/ contains(description, s_blocks)
    THEN 85
    ELSE IF status \in {"In Progress", "In Review"}
    THEN 60
    ELSE 30

TeamCapacity(assignee) ==
    LET assignees == Len(assignee)
    IN  IF assignees = 0 THEN 60
        ELSE IF assignees = 1 THEN 70
        ELSE IF assignees = 2 THEN 50
        ELSE 30

Risk(status, title) ==
    IF status = "In Progress" THEN 40
    ELSE IF status = "In Review" THEN 50
    ELSE IF contains(title, s_bug) THEN 70
    ELSE IF contains(title, s_deploy) \/ contains(lower(title), s_production) THEN 75
    ELSE 30

\* the weighted sum, in hundredths of a point
WeightedSum(urgency, strategic, dependency_impact, team_capacity, risk) ==
    urgency * 30 + strategic * 20 + dependency_impact * 25
        + team_capacity * 15 + risk * 10

Min(a, b) == IF a <= b THEN a ELSE b
Max(a, b) == IF a >= b THEN a ELSE b

\* round(x, 1) of a value given in hundredths; the result is in tenths.
\* Every weighted sum of the sub-scores above is a multiple of 0.25, which a
\* binary float holds exactly, so Python rounds the ties to the even tenth.
round1(hundredths) ==
    LET q == hundredths \div 10
        r == hundredths % 10
    IN  IF r < 5 THEN q
        ELSE IF r > 5 THEN q + 1
        ELSE IF q % 2 = 0 THEN q ELSE q + 1

FinalScoreTimesTen(priority_score) ==
    round1(Min(10000, Max(0, priority_score))) * 10

\* round(min(100, max(0, priority_score)), 1)
FinalScore(priority_score) ==
    round1(Min(10000, Max(0, priority_score)))

\* The five sub-scores and the returned score of one call that reads the
\* clock at `clock`.
ScoreBreakdown(t, clock) ==
    LET urgency           == Urgency(t.deadline, clock)
        title             == lower(t.title)
        strategic         == Strategic(t.labels, title)
        description       == lower(t.description)
        dependency_impact == DependencyImpact(description, t.status)
        team_capacity     == TeamCapacity(t.assignee)
        risk              == Risk(t.status, title)
    IN  [urgency           |-> urgency,
         strategic         |-> strategic,
         dependency_impact |-> dependency_impact,
         team_capacity     |-> team_capacity,
         risk              |-> risk,
         priority_score    |-> FinalScore(WeightedSum(urgency, strategic,
                                   dependency_impact, team_capacity, risk))]

calculate_priority_score(t, all_tasks, clock) ==
    ScoreBreakdown(t, clock).priority_score

\* --------------------------------------------------------------- normalizer
\* {l['id']: l['name'] for l in trello_lists}: a later entry replaces an
\* earlier one with the same id
list_map(trello_lists) ==
    [k \in {trello_lists[i].id : i \in DOMAIN trello_lists} |->
        LET last == CHOOSE i \in DOMAIN trello_lists :
                        /\ trello_lists[i].id = k
                        /\ \A j \in DOMAIN trello_lists :
                               trello_lists[j].id = k => j <= i
        IN  trello_lists[last].name]

normalize_card_keyed(card, lm) ==
    [id          |-> card.id,
     title       |-> card.name,
     description |-> card.desc,
     source      |-> "trello",
     status      |-> IF card.idList \in DOMAIN lm THEN lm[card.idList] ELSE card.idList,
     assignee    |-> card.idMembers,
     deadline    |-> card.due,
     url         |-> card.url,
     labels      |-> [j \in DOMAIN card.labels |-> card.labels[j].name],
     idList      |-> card.idList]

normalize_card(card, lm) ==
    [id          |-> card.id,
     title       |-> card.name,
     description |-> card.desc,
     source      |-> "trello",
     status      |-> IF card.idList \in DOMAIN lm THEN lm[card.idList] ELSE "unknown",
     assignee    |-> card.idMembers,
     deadline    |-> card.due,
     url         |-> card.url,
     labels      |-> [j \in DOMAIN card.labels |-> card.labels[j].name],
     idList      |-> card.idList]

normalize_tasks(trello_cards, trello_lists) ==
    [i \in DOMAIN trello_cards |-> normalize_card(trello_cards[i], list_map(trello_lists))]

\* ------------------------------------------------------------------- sorting
\* list.sort(key=..., reverse=True) computes one key per element and orders the
\* elements by non-increasing key, elements with equal keys keeping their
\* order.  The operators work on positions: keys[i] is the key of element i,
\* the result is the sequence of positions in sorted order.
RECURSIVE insert_ascending(_, _, _)
insert_ascending(sorted, i, keys) ==
    IF sorted = <<>> THEN <<i>>
    ELSE IF keys[Head(sorted)] <= keys[i]
         THEN <<Head(sorted)>> \o insert_ascending(Tail(sorted), i, keys)
         ELSE <<i>> \o sorted

RECURSIVE insert_unstable(_, _, _)
insert_unstable(sorted, i, keys) ==
    IF sorted = <<>> THEN <<i>>
    ELSE IF keys[Head(sorted)] > keys[i]
         THEN <<Head(sorted)>> \o insert_unstable(Tail(sorted), i, keys)
         ELSE <<i>> \o sorted

RECURSIVE insert_reverse(_, _, _)
insert_reverse(sorted, i, keys) ==
    IF sorted = <<>> THEN <<i>>
    ELSE IF keys[Head(sorted)] >= keys[i]
         THEN <<Head(sorted)>> \o insert_reverse(Tail(sorted), i, keys)
         ELSE <<i>> \o sorted

RECURSIVE sort_prefix(_, _)
sort_prefix(keys, n) ==
    IF n = 0 THEN <<>> ELSE insert_reverse(sort_prefix(keys, n - 1), n, keys)

sort_reverse(keys) == sort_prefix(keys, Len(keys))

\* the elements of xs at the positions order[1], order[2], ...
permute(xs, order) == [j \in DOMAIN order |-> xs[order[j]]]

\* The clock values read by n successive calls of datetime.now() that start
\* no earlier than `now`.
ClockReadings(n) ==
    {c \in [1..n -> now..MaxClock] : \A i \in 1..(n - 1) : c[i] <= c[i + 1]}

clock_after(readings) ==
    IF Len(readings) = 0 THEN now ELSE readings[Len(readings)]

\* round(num / den * 100) for 0 <= num <= den, den > 0: to the nearest
\* integer, a tie to the even one
round_percent(num, den) ==
    LET q == (num * 100) \div den
        r == (num * 100) % den
    IN  IF 2 * r < den THEN q
        ELSE IF 2 * r > den THEN q + 1
        ELSE IF q % 2 = 0 THEN q ELSE q + 1

\* ------------------------------------------------------------ input domains
str_docs       == <<"d","o","c","s">>
str_Fix_Bug    == <<"F","i","x"," ","B","u","g">>
str_Deploy     == <<"D","e","p","l","o","y">>
str_error      == <<"e","r","r","o","r">>
str_PRODUCTION == <<"P","R","O","D","U","C","T","I","O","N">>
str_Blocks_QA  == <<"B","l","o","c","k","s"," ","Q","A">>
str_a_BLOCKER  == <<"a"," ","B","L","O","C","K","E","R">>

Titles       == {str_docs, str_Fix_Bug, str_Deploy, str_error, str_PRODUCTION}
Descriptions == {<<>>, str_Blocks_QA, str_a_BLOCKER}
LabelLists   == {<<>>, <<"critical">>, <<"blocker">>, <<"Blocker">>, <<"high">>,
                 <<"low", "urgent">>, <<"nice to have">>}
Statuses     == {"To Do", "In Progress", "In Review"}
MemberLists  == {<<>>, <<"m1">>, <<"m1", "m2">>, <<"m1", "m2", "m3">>}
IsoHours     == {0, 24, 48, 96, 120, 192}
Deadlines    == {NoDeadline, EmptyDeadline, BadDeadline} \cup {IsoDeadline(t) : t \in IsoHours}

ScoreTasks ==
    [id : {"c1"}, title : Titles, description : Descriptions, source : {"trello"},
     status : Statuses, assignee : MemberLists, deadline : Deadlines, url : {"u"},
     labels : LabelLists, idList : {"l1"}]

NoTask == [id |-> "", title |-> <<>>, description |-> <<>>, source |-> "trello",
           status |-> "unknown", assignee |-> <<>>, deadline |-> NoDeadline,
           url |-> "", labels |-> <<>>, idList |-> ""]

NoEval == [done |-> FALSE, at |-> 0, urgency |-> 0, strategic |-> 0,
           dependency_impact |-> 0, team_capacity |-> 0, risk |-> 0,
           priority_score |-> 0]

NoResponse == [route |-> "", code |-> 0, body |-> [none |-> TRUE]]
NoLocals   == [cards |-> <<>>, lists |-> <<>>, tasks |-> <<>>]

\* ----------------------------------------------------------------- the board
CardIds == <<"c1", "c2", "c3", "c4", "c5">>

\* cards as served by the board, before the position gives them an id
CardPool ==
    { [name |-> str_docs, desc |-> <<>>, idList |-> "l1", idMembers |-> <<"m1">>,
       due |-> IsoDeadline(120), url |-> "u", labels |-> <<>>],
      [name |-> str_Fix_Bug, desc |-> <<>>, idList |-> "l2", idMembers |-> <<>>,
       due |-> IsoDeadline(0), url |-> "u", labels |-> <<[name |-> "blocker"]>>],
      [name |-> str_Deploy, desc |-> str_Blocks_QA, idList |-> "l3",
       idMembers |-> <<"m1", "m2", "m3">>, due |-> NoDeadline, url |-> "u",
       labels |-> <<[name |-> "high"]>>],
      [name |-> str_docs, desc |-> str_a_BLOCKER, idList |-> "l9", idMembers |-> <<>>,
       due |-> BadDeadline, url |-> "u", labels |-> <<[name |-> "Blocker"]>>] }

with_id(shape, id) ==
    [id |-> id, name |-> shape.name, desc |-> shape.desc, idList |-> shape.idList,
     idMembers |-> shape.idMembers, due |-> shape.due, url |-> shape.url,
     labels |-> shape.labels]

\* the boards of at most MaxCards cards; a card's id is unique on its board
Boards ==
    UNION { { [i \in 1..n |-> with_id(shapes[i], CardIds[i])] : shapes \in [1..n -> CardPool] }
            : n \in 0..MaxCards }

\* the lists of the board; the id "l1" occurs twice, as a renamed list does in
\* a merged fetch, and no list has the id "l9"
ListOptions ==
    { << [id |-> "l1", name |-> "Backlog"], [id |-> "l2", name |-> "In Progress"],
         [id |-> "l3", name |-> "Done"], [id |-> "l1", name |-> "To Do"] >> }

\* get_trello_cards(): the cards of the board, or [] after any exception
get_trello_cards == {cards, <<>>}

\* get_trello_lists(): the lists of the board, or [] after any exception
get_trello_lists == {lists, <<>>}

\* ------------------------------------------------------------ AI collaborators
\* analyze_task_with_ai: the model's text, or the diagnostic of the except branch
analyze_task_with_ai(t, all_tasks) == {"analysis", "Could not analyze"}

\* predict_project_risk: the overdue count parses every truthy deadline, so a
\* deadline that does not parse sends the call to its except branch
predict_project_risk(tasks) ==
    IF \E i \in DOMAIN tasks : truthy(tasks[i].deadline) /\ ~parses(tasks[i].deadline)
    THEN {"Could not predict"}
    ELSE {"prediction", "Could not predict"}

\* ---------------------------------------------------------------- the handlers
with_score(t, score) ==
    [id |-> t.id, title |-> t.title, description |-> t.description,
     source |-> t.source, status |-> t.status, assignee |-> t.assignee,
     deadline |-> t.deadline, url |-> t.url, labels |-> t.labels,
     idList |-> t.idList, priority_score |-> score]

\* the loop `for task in tasks: task['priority_score'] = ...`, call i reading
\* the clock at readings[i]
score_all(tasks, readings) ==
    [i \in DOMAIN tasks |->
        with_score(tasks[i], calculate_priority_score(tasks[i], tasks, readings[i]))]

key_records(keys, readings, order) ==
    [j \in DOMAIN order |-> [key |-> keys[order[j]], at |-> readings[order[j]]]]

\* GET /api/health
health ==
    /\ response' = [route |-> "/api/health", code |-> 200,
                    body |-> [status |-> "OK",
                              message |-> "ProActive Intelligence Hub is running",
                              timestamp |-> now]]
    /\ locals' = NoLocals
    /\ sort_keys' = <<>>
    /\ UNCHANGED <<now, cards, lists, task, result, prev>>

\* the body of get_all_tasks once both fetches have returned
get_all_tasks_skip_guard(cs, ls, readings) ==
    LET tasks  == normalize_tasks(cs, ls)
        scored == score_all(tasks, readings)
        keys   == [i \in DOMAIN scored |-> scored[i].priority_score]
        order  == sort_reverse(keys)
    IN  [response  |-> [route |-> "/api/tasks", code |-> 200,
                        body |-> [success |-> TRUE, total_tasks |-> Len(tasks),
                                  tasks |-> permute(scored, order)]],
         tasks     |-> tasks,
         sort_keys |-> key_records(keys, readings, order)]

get_all_tasks_body(cs, ls, readings) ==
    IF cs = <<>>
    THEN [response  |-> [route |-> "/api/tasks", code |-> 200,
                         body |-> [success |-> FALSE,
                                   error |-> "No cards found. Check Trello credentials.",
                                   cards_count |-> 0]],
          tasks     |-> <<>>,
          sort_keys |-> <<>>]
    ELSE LET tasks  == normalize_tasks(cs, ls)
             scored == score_all(tasks, readings)
             keys   == [i \in DOMAIN scored |-> scored[i].priority_score]
             order  == sort_reverse(keys)
         IN  [response  |-> [route |-> "/api/tasks", code |-> 200,
                             body |-> [success |-> TRUE, total_tasks |-> Len(tasks),
                                       tasks |-> permute(scored, order)]],
              tasks     |-> tasks,
              sort_keys |-> key_records(keys, readings, order)]

\* GET /api/tasks
get_all_tasks ==
    \E cs \in get_trello_cards, ls \in get_trello_lists :
      \E readings \in ClockReadings(Len(cs)) :
        LET out == get_all_tasks_body(cs, ls, readings)
        IN  /\ response' = out.response
            /\ locals' = [cards |-> cs, lists |-> ls, tasks |-> out.tasks]
            /\ sort_keys' = out.sort_keys
            /\ now' = clock_after(readings)
            /\ UNCHANGED <<cards, lists, task, result, prev>>

\* GET /api/next-task
get_next_task ==
    \E cs \in get_trello_cards, ls \in get_trello_lists :
      \E readings \in ClockReadings(Len(cs)) :
        /\ IF cs = <<>>
           THEN /\ response' = [route |-> "/api/next-task", code |-> 200,
                                body |-> [success |-> TRUE, message |-> <<"No tasks yet!">>]]
                /\ locals' = [cards |-> cs, lists |-> ls, tasks |-> <<>>]
                /\ sort_keys' = <<>>
           ELSE LET tasks    == normalize_tasks(cs, ls)
                    scored   == score_all(tasks, readings)
                    keys     == [i \in DOMAIN scored |-> scored[i].priority_score]
                    order    == sort_reverse(keys)
                    top_task == permute(scored, order)[1]
                IN  /\ response' = [route |-> "/api/next-task", code |-> 200,
                                    body |-> [success |-> TRUE, task |-> top_task,
                                              message |-> <<"Top Priority", top_task.title,
                                                            top_task.priority_score>>]]
                    /\ locals' = [cards |-> cs, lists |-> ls, tasks |-> tasks]
                    /\ sort_keys' = key_records(keys, readings, order)
        /\ now' = clock_after(readings)
        /\ UNCHANGED <<cards, lists, task, result, prev>>

\* GET /api/summary
get_summary ==
    \E cs \in get_trello_cards, ls \in get_trello_lists :
        LET tasks         == normalize_tasks(cs, ls)
            status_counts == [st \in {tasks[i].status : i \in DOMAIN tasks} |->
                                 Cardinality({i \in DOMAIN tasks : tasks[i].status = st})]
            done_count    == IF "Done" \in DOMAIN status_counts
                             THEN status_counts["Done"] ELSE 0
            completion_rate == IF tasks # <<>>
                               THEN round_percent(done_count, Len(tasks)) ELSE 0
        IN  /\ response' = [route |-> "/api/summary", code |-> 200,
                            body |-> [success |-> TRUE,
                                      summary |-> [total_tasks |-> Len(tasks),
                                                   completion_rate |-> completion_rate,
                                                   by_status |-> status_counts]]]
            /\ locals' = [cards |-> cs, lists |-> ls, tasks |-> tasks]
            /\ sort_keys' = <<>>
            /\ UNCHANGED <<now, cards, lists, task, result, prev>>

\* the JSON bodies a client posts to /api/analyze: none at all, or a task_id
NoJson == [json |-> FALSE, task_id |-> ""]
AnalyzeRequests ==
    {NoJson, [json |-> TRUE, task_id |-> "c1"], [json |-> TRUE, task_id |-> "c9"]}

\* POST /api/analyze
analyze_task_endpoint ==
    \E data \in AnalyzeRequests :
        IF ~data.json
        THEN \* data.get raises; the except branch answers
             /\ response' = [route |-> "/api/analyze", code |-> 500,
                             body |-> [success |-> FALSE, error |-> "exception"]]
             /\ locals' = NoLocals
             /\ sort_keys' = <<>>
             /\ UNCHANGED <<now, cards, lists, task, result, prev>>
        ELSE \E cs \in get_trello_cards, ls \in get_trello_lists :
               LET tasks == normalize_tasks(cs, ls)
                   found == {i \in DOMAIN tasks : tasks[i].id = data.task_id}
               IN  /\ IF found = {}
                      THEN response' = [route |-> "/api/analyze", code |-> 404,
                                        body |-> [success |-> FALSE,
                                                  error |-> "Task not found"]]
                      ELSE LET t == tasks[CHOOSE i \in found : \A j \in found : i <= j]
                           IN  \E analysis \in analyze_task_with_ai(t, tasks) :
                                 response' = [route |-> "/api/analyze", code |-> 200,
                                              body |-> [success |-> TRUE,
                                                        task_id |-> data.task_id,
                                                        task_title |-> t.title,
                                                        analysis |-> analysis]]
                   /\ locals' = [cards |-> cs, lists |-> ls, tasks |-> tasks]
                   /\ sort_keys' = <<>>
                   /\ UNCHANGED <<now, cards, lists, task, result, prev>>

\* GET /api/risk
get_risk_prediction ==
    \E cs \in get_trello_cards, ls \in get_trello_lists :
        LET tasks == normalize_tasks(cs, ls)
        IN  /\ IF tasks = <<>>
               THEN response' = [route |-> "/api/risk", code |-> 200,
                                 body |-> [success |-> TRUE,
                                           message |-> "No tasks to analyze"]]
               ELSE \E risk_analysis \in predict_project_risk(tasks) :
                      response' = [route |-> "/api/risk", code |-> 200,
                                   body |-> [success |-> TRUE,
                                             risk_analysis |-> risk_analysis]]
            /\ locals' = [cards |-> cs, lists |-> ls, tasks |-> tasks]
            /\ sort_keys' = <<>>
            /\ UNCHANGED <<now, cards, lists, task, result, prev>>

\* the condition of the list comprehension of get_blockers
is_blocker(t) ==
    member("blocker", t.labels) \/ contains(lower(t.description), s_blocker)

\* GET /api/blockers
get_blockers ==
    \E cs \in get_trello_cards, ls \in get_trello_lists :
        LET tasks    == normalize_tasks(cs, ls)
            blockers == SelectSeq(tasks, is_blocker)
        IN  \E readings \in ClockReadings(Len(blockers)) :
              LET keys  == [i \in DOMAIN blockers |->
                               calculate_priority_score(blockers[i], tasks, readings[i])]
                  order == sort_reverse(keys)
              IN  /\ response' = [route |-> "/api/blockers", code |-> 200,
                                  body |-> [success |-> TRUE,
                                            blockers |-> permute(blockers, order),
                                            count |-> Len(blockers)]]
                  /\ locals' = [cards |-> cs, lists |-> ls, tasks |-> tasks]
                  /\ sort_keys' = key_records(keys, readings, order)
                  /\ now' = clock_after(readings)
                  /\ UNCHANGED <<cards, lists, task, result, prev>>

\* @app.errorhandler(404): a request for a route the application does not have
not_found ==
    /\ response' = [route |-> "missing", code |-> 404,
                    body |-> [error |-> "Endpoint not found"]]
    /\ locals' = NoLocals
    /\ sort_keys' = <<>>
    /\ UNCHANGED <<now, cards, lists, task, result, prev>>

\* @app.errorhandler(500): an exception that escaped a view
server_error ==
    /\ response' = [route |-> "error", code |-> 500,
                    body |-> [error |-> "Server error", message |-> "exception"]]
    /\ locals' = NoLocals
    /\ sort_keys' = <<>>
    /\ UNCHANGED <<now, cards, lists, task, result, prev>>

\* ------------------------------------------------- scoring engine, as a machine
\* One call of calculate_priority_score(task, [task]); datetime.now() reads `now`.
Evaluate ==
    /\ LET b == ScoreBreakdown(task, now)
       IN  result' = [done |-> TRUE, at |-> now, urgency |-> b.urgency,
                      strategic |-> b.strategic,
                      dependency_impact |-> b.dependency_impact,
                      team_capacity |-> b.team_capacity, risk |-> b.risk,
                      priority_score |-> calculate_priority_score(task, <<task>>, now)]
    /\ prev' = result
    /\ UNCHANGED <<now, cards, lists, response, locals, sort_keys, task>>

\* the wall clock advances
Tick ==
    /\ now < MaxClock
    /\ now' = now + 1
    /\ UNCHANGED <<cards, lists, response, locals, sort_keys, task, result, prev>>

InitScore ==
    /\ now = 0
    /\ task \in ScoreTasks
    /\ result = NoEval
    /\ prev = NoEval
    /\ cards = <<>>
    /\ lists = <<>>
    /\ response = NoResponse
    /\ locals = NoLocals
    /\ sort_keys = <<>>

NextScore == Evaluate \/ Tick

SpecScore == InitScore /\ [][NextScore]_vars

\* ------------------------------------------------------ the service, as a machine
Init ==
    /\ now = 0
    /\ cards \in Boards
    /\ lists \in ListOptions
    /\ response = NoResponse
    /\ locals = NoLocals
    /\ sort_keys = <<>>
    /\ task = NoTask
    /\ result = NoEval
    /\ prev = NoEval

Next ==
    \/ health
    \/ get_all_tasks
    \/ get_next_task
    \/ get_summary
    \/ analyze_task_endpoint
    \/ get_risk_prediction
    \/ get_blockers
    \/ not_found
    \/ server_error
    \/ Tick

Spec == Init /\ [][Next]_vars

\* ---------------------------------------------------------------- properties
\* C1: every score returned by calculate_priority_score lies in [0, 100]
\* (0..1000 tenths), whatever the deadline, labels, title, description, status
\* and number of assignees of the task.
C1_ScoreInRange ==
    result.done => (0 <= result.priority_score /\ result.priority_score <= 1000)

\* an overdue, critical, blocking, single-owner task in review: 84.75 -> 84.8
C1_Witness ==
    /\ result.done
    /\ task.deadline.kind = "iso"
    /\ result.priority_score = 848

\* the task-by-id test of C2: task i of the normalized set is in the result
in_blockers(i) ==
    \E j \in DOMAIN response.body.blockers :
        response.body.blockers[j].id = locals.tasks[i].id

\* C2: /api/blockers returns exactly the tasks that have the label "blocker"
\* or whose lower-cased description contains "blocker" or "blocks".
C2_BlockersExact ==
    response.route = "/api/blockers" =>
        \A i \in DOMAIN locals.tasks :
            in_blockers(i) <=>
                \/ member("blocker", locals.tasks[i].labels)
                \/ contains(lower(locals.tasks[i].description), s_blocker)
                \/ contains(lower(locals.tasks[i].description), s_blocks)

\* the urgency table of C3, by the hours that remain
urgency_table(deadline, clock) ==
    LET h == deadline.at - clock
    IN  CASE deadline.kind \in {"none", "empty"} -> 10
          [] deadline.kind = "bad" -> 30
          [] deadline.kind = "iso" /\ h < 0 -> 100
          [] deadline.kind = "iso" /\ 0 <= h /\ h < 24 -> 90
          [] deadline.kind = "iso" /\ 24 <= h /\ h < 48 -> 80
          [] deadline.kind = "iso" /\ 48 <= h /\ h < 96 -> 60
          [] deadline.kind = "iso" /\ 96 <= h /\ h < 192 -> 40
          [] deadline.kind = "iso" /\ 192 <= h -> 20

\* C3: urgency is 10 without a deadline, 30 for a deadline that does not
\* parse, and for a parseable one 100 when overdue, 90 under 24 hours, 80 at
\* one whole day, 60 up to three, 40 up to seven, else 20; and for a parseable
\* deadline a later evaluation never has a lower urgency than an earlier one.
C3_UrgencyBreakpoints ==
    /\ result.done => result.urgency = urgency_table(task.deadline, result.at)
    /\ (result.done /\ prev.done /\ task.deadline.kind = "iso") =>
           (prev.at <= result.at /\ prev.urgency <= result.urgency)

\* the clock passed the deadline between two evaluations
C3_Witness ==
    /\ result.done /\ prev.done
    /\ task.deadline.kind = "iso"
    /\ prev.urgency = 90
    /\ result.urgency = 100

\* C4: two evaluations of calculate_priority_score on the same task and task
\* set return the same score.
C4_SameArgumentsSameScore ==
    (result.done /\ prev.done) => result.priority_score = prev.priority_score

\* C5: every response, of every route and of the 404 and 500 handlers, is a
\* JSON object with a boolean field `success`.
C5_SuccessEnvelope ==
    response.route # "" =>
        /\ "success" \in DOMAIN response.body
        /\ response.body.success \in BOOLEAN

\* a scored task without its priority_score
without_score(t) ==
    [id |-> t.id, title |-> t.title, description |-> t.description,
     source |-> t.source, status |-> t.status, assignee |-> t.assignee,
     deadline |-> t.deadline, url |-> t.url, labels |-> t.labels,
     idList |-> t.idList]

\* the position of the card with this id in the fetched cards
card_position(id) == CHOOSE i \in DOMAIN locals.cards : locals.cards[i].id = id

\* C6: the tasks of /api/tasks are a permutation of the normalized tasks, in
\* non-increasing order of priority_score, and tasks of equal score are in the
\* order of their cards.
C6_SortedStable ==
    (response.route = "/api/tasks" /\ response.body.success) =>
        LET ts == response.body.tasks
        IN  /\ Len(ts) = Len(locals.tasks)
            /\ \A i \in DOMAIN locals.tasks :
                   \E j \in DOMAIN ts : without_score(ts[j]) = locals.tasks[i]
            /\ \A j \in DOMAIN ts, k \in DOMAIN ts :
                   j < k =>
                     /\ ts[j].priority_score >= ts[k].priority_score
                     /\ ts[j].priority_score = ts[k].priority_score =>
                            card_position(ts[j].id) < card_position(ts[k].id)

\* two tasks of the response have the same score
C6_Witness ==
    /\ response.route = "/api/tasks"
    /\ response.body.success
    /\ \E j \in DOMAIN response.body.tasks, k \in DOMAIN response.body.tasks :
           /\ j < k
           /\ response.body.tasks[j].priority_score = response.body.tasks[k].priority_score

\* the routes whose handler calls normalize_tasks
NormalizingRoutes ==
    {"/api/tasks", "/api/next-task", "/api/summary", "/api/analyze", "/api/risk",
     "/api/blockers"}

\* C7: normalize_tasks returns one task per card, in the order of the cards;
\* the status of a task is the name the list mapping gives to the card's
\* idList, and "unknown" when the mapping has no such key.
C7_NormalizeShape ==
    response.route \in NormalizingRoutes =>
        /\ Len(locals.tasks) = Len(locals.cards)
        /\ \A i \in DOMAIN locals.cards :
             LET card    == locals.cards[i]
                 t       == locals.tasks[i]
                 entries == {k \in DOMAIN locals.lists : locals.lists[k].id = card.idList}
             IN  /\ t.id = card.id
                 /\ t.title = card.name
                 /\ t.deadline = card.due
                 /\ entries = {} => t.status = "unknown"
                 /\ entries # {} =>
                        \E k \in entries :
                            /\ \A m \in entries : m <= k
                            /\ t.status = locals.lists[k].name

\* one status resolved through the mapping, one not, and with the list fetch
\* intact
C7_Witness ==
    /\ response.route \in NormalizingRoutes
    /\ locals.lists # <<>>
    /\ \E i \in DOMAIN locals.tasks, j \in DOMAIN locals.tasks :
           /\ i < j
           /\ locals.tasks[i].status = "unknown"
           /\ locals.tasks[j].status = "In Progress"

\* C8: when the card fetch yields no cards, /api/tasks answers 200 with
\* success = false and no tasks (cards_count 0), not through the 500 branch.
C8_EmptyFetchFailsSoft ==
    (response.route = "/api/tasks" /\ locals.cards = <<>>) =>
        /\ response.code = 200
        /\ response.body.success = FALSE
        /\ "tasks" \notin DOMAIN response.body
        /\ response.body.cards_count = 0

\* the fetch failed on a board that has cards
C8_Witness ==
    /\ response.route = "/api/tasks"
    /\ locals.cards = <<>>
    /\ cards # <<>>
    /\ response.body.success = FALSE

\* the rule tables of C9, first match first
strategic_table(t) ==
    LET top  == \E l \in {"critical", "blocker", "emergency"} : member(l, t.labels)
        high == \E l \in {"high", "urgent"} : member(l, t.labels)
        word == \E w \in {s_bug, s_fix, s_error} : contains(lower(t.title), w)
        low  == \E l \in {"low", "nice to have"} : member(l, t.labels)
    IN  CASE top -> 90
          [] ~top /\ high -> 70
          [] ~top /\ ~high /\ word -> 75
          [] ~top /\ ~high /\ ~word /\ low -> 25
          [] ~top /\ ~high /\ ~word /\ ~low -> 50

dependency_table(t) ==
    LET blocking == \E w \in {s_blocker, s_blocks} : contains(lower(t.description), w)
        active   == t.status \in {"In Progress", "In Review"}
    IN  CASE blocking -> 85
          [] ~blocking /\ active -> 60
          [] ~blocking /\ ~active -> 30

capacity_table(t) ==
    CASE Len(t.assignee) = 0 -> 60
      [] Len(t.assignee) = 1 -> 70
      [] Len(t.assignee) = 2 -> 50
      [] Len(t.assignee) >= 3 -> 30

risk_table(t) ==
    LET bug  == contains(lower(t.title), s_bug)
        ship == \E w \in {s_deploy, s_production} : contains(lower(t.title), w)
    IN  CASE t.status = "In Progress" -> 40
          [] t.status = "In Review" -> 50
          [] t.status \notin {"In Progress", "In Review"} /\ bug -> 70
          [] t.status \notin {"In Progress", "In Review"} /\ ~bug /\ ship -> 75
          [] t.status \notin {"In Progress", "In Review"} /\ ~bug /\ ~ship -> 30

\* Scenario A: no labels, no keywords, due in 5 days, "To Do", one assignee
is_scenario_A ==
    /\ task.labels = <<>>
    /\ task.title = str_docs
    /\ task.description = <<>>
    /\ task.status = "To Do"
    /\ Len(task.assignee) = 1
    /\ task.deadline = IsoDeadline(120)

\* C9: the score is the weighted sum 0.30 urgency + 0.20 strategic + 0.25
\* dependency + 0.15 capacity + 0.10 risk of the sub-scores of the rule tables
\* (to the nearest tenth), and Scenario A has sub-scores 40, 50, 30, 70, 30 and
\* score 43.0.
C9_WeightedSum ==
    result.done =>
        /\ result.strategic = strategic_table(task)
        /\ result.dependency_impact = dependency_table(task)
        /\ result.team_capacity = capacity_table(task)
        /\ result.risk = risk_table(task)
        /\ LET sum == 30 * result.urgency + 20 * result.strategic
                        + 25 * result.dependency_impact
                        + 15 * result.team_capacity + 10 * result.risk
           IN  (10 * result.priority_score - sum) \in -5..5
        /\ is_scenario_A =>
               /\ result.urgency = 40 /\ result.strategic = 50
               /\ result.dependency_impact = 30 /\ result.team_capacity = 70
               /\ result.risk = 30 /\ result.priority_score = 430

C9_Witness ==
    /\ result.done
    /\ is_scenario_A
    /\ result.priority_score = 430

\* C10: the blockers of /api/blockers are in non-increasing order of the scores
\* computed for them during the selection, one fresh call per blocker, none
\* read from a priority_score attached earlier.
C10_BlockersSortedByFreshScore ==
    response.route = "/api/blockers" =>
        LET bs == response.body.blockers
        IN  /\ Len(sort_keys) = Len(bs)
            /\ \A j \in DOMAIN bs :
                   /\ "priority_score" \notin DOMAIN bs[j]
                   /\ sort_keys[j].at <= now
                   /\ sort_keys[j].key =
                          calculate_priority_score(bs[j], locals.tasks, sort_keys[j].at)
            /\ \A j \in DOMAIN bs, k \in DOMAIN bs :
                   j < k => sort_keys[j].key >= sort_keys[k].key

\* two blockers scored at different clock readings, the later card first
C10_Witness ==
    /\ response.route = "/api/blockers"
    /\ Len(response.body.blockers) >= 2
    /\ sort_keys[1].key > sort_keys[2].key
    /\ sort_keys[1].at # sort_keys[2].at
    /\ card_position(response.body.blockers[1].id)
           > card_position(response.body.blockers[2].id)

====
